---- MODULE Spec2Model ----
(***************************************************************************)
(* Model of the kafka-exporter charm (src/src/charm.py).                   *)
(*                                                                         *)
(* The charm is an event-driven controller: the platform delivers one      *)
(* event at a time, and each handler runs to completion.  One action of    *)
(* this model is one delivered event together with the whole handler.      *)
(*                                                                         *)
(* Strings that the code inspects (the kafka-endpoint option, the relation *)
(* host and port, the command line) are sequences of one-character         *)
(* strings, so that split(":") and the f-strings are computed, not         *)
(* assumed.  Messages and option names the code only compares as a whole   *)
(* are single strings.                                                     *)
(*                                                                         *)
(* Pebble (the process supervisor) is the environment.  Its calls behave   *)
(* as the ops library documents them: every call but can_connect() raises  *)
(* ConnectionError when the API is unreachable, replan() may raise         *)
(* ChangeError, stop() of a service that is in no layer is an API error.   *)
(* Reachability does not change while one handler runs.                    *)
(***************************************************************************)
EXTENDS Integers, Sequences, FiniteSets, TLC

\* ------------------------------------------------------------------ bounds
MaxLen == 3          \* longest kafka-endpoint option value that is enumerated

\* --------------------------------------------------------------- constants
PORT == 9308
DefaultRetryMutant == 3 + 1
DefaultRetry == 3
SleepUnits == 5

\* G applied to the value of v, computed once
Bind(v, G(_)) == CHOOSE r \in {G(y) : y \in {v}} : TRUE

\* ----------------------------------------------------------------- strings
Alphabet == {"k", ":"}

None == <<"<None>">>

RECURSIVE StringsUpTo(_)
StringsUpTo(n) ==
    IF n = 0 THEN {<<>>}
    ELSE Bind(StringsUpTo(n - 1), LAMBDA shorter :
             shorter \cup {Append(s, c) : s \in {t \in shorter : Len(t) = n - 1},
                                          c \in Alphabet})

\* values the kafka-endpoint option can take: unset, or any string
\* (for the checks of the resolution as a function of the option)
StaticValues == {None} \cup StringsUpTo(MaxLen)

\* the values the option takes in the event machine: unset, a name without
\* port, a host and a port
MachineEndpoints == {None, <<"k">>, <<"k", ":", "k">>}

\* values a relation field and the external-hostname option can take
HostValues == {None, <<"r">>}
PortValues == {None, <<"9">>}
HostnameValues == {<<"h">>}

\* option values: a valid name, a valid name in mixed case, an invalid name
LogLevels == {"info", "Info", "warning"}

\* Python truthiness of an optional string
Truthy(x) == x # None /\ x # <<>>

\* str.format of an optional string
Str(x) == IF x = None THEN <<"N", "o", "n", "e">> ELSE x

\* str.split(sep): the list of the pieces between the separators
RECURSIVE SplitFrom(_, _, _, _)
SplitFrom(s, sep, i, cur) ==
    IF i > Len(s) THEN <<cur>>
    ELSE IF s[i] = sep THEN <<cur>> \o SplitFrom(s, sep, i + 1, <<>>)
    ELSE SplitFrom(s, sep, i + 1, Append(cur, s[i]))

Split(s, sep) == SplitFrom(s, sep, 1, <<>>)

\* str.upper on the log-level option
Upper(x) ==
    CASE x = "info" -> "INFO"
      [] x = "Info" -> "INFO"
      [] x = "warning" -> "WARNING"
      [] OTHER -> x

\* ---------------------------------------------------------------- statuses
Status(kind, msg) == [kind |-> kind, msg |-> msg]
ActiveStatus == Status("Active", <<>>)
BlockedStatus(m) == Status("Blocked", m)
WaitingStatus(m) == Status("Waiting", m)
\* the status of a unit no handler has written yet
InitialStatus == Status("Maintenance", <<>>)

MsgWrongFormatShort == <<"Wrong kafka-endpoint format">>
MsgWrongFormat == <<"Wrong kafka-endpoint format: value must be in the format <host>:<port>">>
MsgLogLevel == <<"invalid value for log-level option">>
MsgConflict == <<"Kafka cannot added via relation and via config at the same time">>
MsgNoEndpoint == <<"Not kafka-endpoint added. Kafka endpoint needs to be added via relation or via config">>
MsgWaitingPebble == <<"waiting for Pebble API">>
MsgNotConfigured == <<"kafka-exporter service not configured yet">>
MsgNotRunning == <<"kafka-exporter service is not running">>
MsgNotReady == <<"waiting for pebble to start">>

\* ------------------------------------------------------------------- state
VARIABLES
    config,          \* model.config: kafka-endpoint, log-level
    relHost,         \* kafka_client.host
    relPort,         \* kafka_client.port
    reachable,       \* container.can_connect()
    plan,            \* the layer Pebble holds for kafka-exporter
    running,         \* whether Pebble runs the kafka-exporter service
    status,          \* unit.status
    kafka_endpoint,  \* self.kafka_endpoint
    deferred,        \* events handed back to the platform by event.defer()
    ingress,         \* what the ingress collaborator was last given
    last             \* what the handler that just returned did

vars == <<config, relHost, relPort, reachable, plan, running, status,
          kafka_endpoint, deferred, ingress, last>>


\* what the handlers read: the options, the relation data, the reachability
Env(cfg, host, port, reach) ==
    [endpoint |-> cfg.endpoint, loglevel |-> cfg.loglevel, hostname |-> cfg.hostname,
     host |-> host, port |-> port, reach |-> reach]

\* ----------------------------------------------------- the handler's state
\* A handler is computed over a record w: the fields of the charm and of
\* Pebble it can change, what it has done so far, and the exception in
\* flight (exc, with err the status carried by a CharmError).
NoLayer == [command |-> <<>>, startup |-> "", port |-> 0]

NoErr == Status("", <<>>)

Begin(st, pl, run, kep, dfr, ing) ==
    [status |-> st, plan |-> pl, running |-> run, kep |-> kep, deferred |-> dfr,
     ingress |-> ing, ret |-> None, exc |-> "none", err |-> NoErr,
     addLayers |-> 0, replans |-> 0, replanOk |-> FALSE, slept |-> 0, stops |-> 0,
     stopIdle |-> FALSE,
     wrote |-> FALSE, pushed |-> FALSE, deferredNow |-> FALSE,
     budget |-> -1, minRetry |-> DefaultRetry + 1]

Raise(w, exc, errStatus) == [w EXCEPT !.exc = exc, !.err = errStatus]

Caught(w) == [w EXCEPT !.exc = "none"]

SetStatus(w, st) == [w EXCEPT !.status = st, !.wrote = TRUE]

Return(w, v) == [w EXCEPT !.ret = v]

\* ------------------------------------------------------------------ Pebble
\* container.add_layer("kafka-exporter", layer, combine=True)
AddLayer(w, env, layer) ==
    IF ~env.reach THEN Raise(w, "ConnectionError", NoErr)
    ELSE [w EXCEPT !.plan = layer, !.addLayers = @ + 1]

ReplanMutant(w, env, ok) ==
    IF ~env.reach THEN Raise(w, "ConnectionError", NoErr)
    ELSE IF ok THEN [w EXCEPT !.replans = @ + 1, !.replanOk = TRUE]
    ELSE Raise([w EXCEPT !.running = FALSE, !.replans = @ + 1], "ChangeError", NoErr)

\* container.replan(): ok says whether the change succeeds; a service whose
\* startup is "enabled" runs after a successful replan; a replan fails when
\* the service does not start, and the service is then not running
Replan(w, env, ok) ==
    IF ~env.reach THEN Raise(w, "ConnectionError", NoErr)
    ELSE IF ok THEN [w EXCEPT !.running = TRUE, !.replans = @ + 1, !.replanOk = TRUE]
    ELSE Raise([w EXCEPT !.running = FALSE, !.replans = @ + 1], "ChangeError", NoErr)

\* container.stop("kafka-exporter"); stopIdle records a stop command sent for
\* a service that was not running
Stop(w, env) ==
    IF ~env.reach THEN Raise(w, "ConnectionError", NoErr)
    ELSE IF w.plan = NoLayer THEN Raise(w, "APIError", NoErr)
    ELSE [w EXCEPT !.running = FALSE, !.stops = @ + 1, !.stopIdle = @ \/ ~w.running]

\* ------------------------------------------------------ charms.osm_libs
\* check_container_ready(container)
CheckContainerReady(w, env) ==
    IF ~env.reach THEN Raise(w, "CharmError", WaitingStatus(MsgNotReady))
    ELSE w

\* check_service_active(container, service_name)
CheckServiceActive(w, env) ==
    IF ~env.reach THEN Raise(w, "ConnectionError", NoErr)
    ELSE IF w.plan = NoLayer THEN Raise(w, "CharmError", WaitingStatus(MsgNotConfigured))
    ELSE IF ~w.running THEN Raise(w, "CharmError", BlockedStatus(MsgNotRunning))
    ELSE w

\* ------------------------------------------------------------------- charm
ValidLevelNamesMutant == {"TRACE", "DEBUG", "INFO", "WARN", "WARNING", "ERROR", "FATAL"}
ValidLevelNames == {"TRACE", "DEBUG", "INFO", "WARN", "ERROR", "FATAL"}

SplitLenOk(n) == n = 2

ValidateConfig(w, env) ==
    IF Upper(env.loglevel) \notin ValidLevelNames
    THEN Raise(SetStatus(w, BlockedStatus(<<"invalid log level: ", Upper(env.loglevel)>>)),
               "CharmError", BlockedStatus(MsgLogLevel))
    ELSE IF Truthy(env.endpoint) /\ ~SplitLenOk(Len(Split(env.endpoint, ":")))
    THEN Raise(SetStatus(w, BlockedStatus(MsgWrongFormatShort)),
               "CharmError", BlockedStatus(MsgWrongFormat))
    ELSE w

GetKafkaConfig(w, env) ==
    Bind(ValidateConfig(w, env), LAMBDA v :
        IF v.exc = "CharmError" THEN Raise(v, "CharmError", BlockedStatus(v.err.msg))
        ELSE Return(v, env.endpoint))

GetKafkaRelationMutant(env, event) ==
    IF Truthy(env.host) /\ Truthy(env.port) THEN Str(env.host) \o <<":">> \o Str(env.port)
    ELSE None

GetKafkaRelation(env, event) ==
    IF event = "RelationBroken" THEN None
    ELSE IF Truthy(env.host) /\ Truthy(env.port) THEN Str(env.host) \o <<":">> \o Str(env.port)
    ELSE None

GetKafkaEndpoint(w, env, event) ==
    Bind(GetKafkaRelation(env, event), LAMBDA relation :
    Bind(GetKafkaConfig(w, env), LAMBDA c :
        IF c.exc # "none" THEN c
        ELSE IF Truthy(c.ret)
        THEN IF Truthy(relation) THEN Raise(c, "CharmError", BlockedStatus(MsgConflict))
             ELSE Return(c, c.ret)
        ELSE IF ~Truthy(relation) THEN Raise(c, "CharmError", BlockedStatus(MsgNoEndpoint))
        ELSE Return(c, relation)))

CmdPrefix == <<"bin/kafka_exporter --kafka.server=">>

PebbleLayerMutant(kep) ==
    [command |-> CmdPrefix \o Str(None), startup |-> "enabled", port |-> PORT]

PebbleLayer(kep) ==
    [command |-> CmdPrefix \o Str(kep), startup |-> "enabled", port |-> PORT]

Min(a, b) == IF a < b THEN a ELSE b

\* event.defer()
DeferMutant(w, event) == [w EXCEPT !.deferredNow = TRUE]
Defer(w, event) == [w EXCEPT !.deferred = @ \cup {event}, !.deferredNow = TRUE]

\* self.kafka_endpoint = <the endpoint just resolved>
AssignMutant(e) == e
Assign(e) == [e EXCEPT !.kep = e.ret]

\* nfail: how many replans fail from here on before one succeeds
RECURSIVE ConfigureService(_, _, _, _, _)
RECURSIVE RetryConfigureService(_, _, _, _, _)
ConfigureService(w0, env, event, retry0, nfail0) ==
    Bind(retry0, LAMBDA retry :
    Bind(nfail0, LAMBDA nfail :
    Bind([w0 EXCEPT !.minRetry = Min(@, retry),
                    !.budget = IF @ = -1 THEN retry ELSE @], LAMBDA w :
        IF retry # 0
        THEN IF env.reach
             THEN Bind(Replan(AddLayer(w, env, PebbleLayer(w.kep)), env, nfail = 0), LAMBDA b :
                      IF b.exc = "ChangeError"
                      THEN RetryConfigureService(Caught(b), env, event, retry, nfail - 1)
                      ELSE IF b.exc # "none" THEN b
                      ELSE SetStatus(b, ActiveStatus))
             ELSE SetStatus(Defer(w, event), WaitingStatus(MsgWaitingPebble))
        ELSE w)))

RetryConfigureService(w, env, event, retry, nfail) ==
    ConfigureService([w EXCEPT !.slept = @ + SleepUnits], env, event, retry - 1, nfail)

StopContainerMutant(w, env) ==
    Bind(CheckServiceActive(w, env), LAMBDA a :
    Bind(IF a.exc = "none" THEN CheckContainerReady(a, env) ELSE a, LAMBDA b :
        IF b.exc = "none" THEN Stop(b, env)
        ELSE IF b.exc = "CharmError"
        THEN Stop([b EXCEPT !.exc = "none", !.err = w.err], env)
        ELSE [b EXCEPT !.err = w.err]))

StopContainer(w, env) ==
    Bind(CheckServiceActive(w, env), LAMBDA a :
    Bind(IF a.exc = "none" THEN CheckContainerReady(a, env) ELSE a, LAMBDA b :
        IF b.exc = "none" THEN Stop(b, env)
        ELSE IF b.exc = "CharmError"
        THEN IF b.err.msg # MsgNotConfigured
             THEN Stop([b EXCEPT !.exc = "none", !.err = w.err], env)
             ELSE [b EXCEPT !.exc = "none", !.err = w.err]
        ELSE [b EXCEPT !.err = w.err]))

UpdateIngressConfig(w, env) ==
    [w EXCEPT !.ingress = env.hostname, !.pushed = TRUE]

\* except CharmError as error: self._stop_container(); status = error.status
StopAndReport(w, env) ==
    Bind(StopContainer(Caught(w), env), LAMBDA s :
        IF s.exc # "none" THEN s ELSE SetStatus(s, w.err))

OnPebbleReady(w, env, event, nfail) ==
    Bind(GetKafkaEndpoint(w, env, event), LAMBDA e :
        IF e.exc = "CharmError" THEN SetStatus(Caught(e), e.err)
        ELSE Bind(AddLayer(Assign(e), env, PebbleLayer(e.ret)), LAMBDA a :
             Bind(IF a.exc = "none" THEN Replan(a, env, nfail = 0) ELSE a, LAMBDA b :
                 IF b.exc = "none" THEN SetStatus(b, ActiveStatus) ELSE b)))

OnConfigChanged(w, env, event, nfail) ==
    Bind(GetKafkaEndpoint(w, env, event), LAMBDA e :
        IF e.exc = "CharmError" THEN StopAndReport(e, env)
        ELSE Bind(ConfigureService(Assign(e), env, event, DefaultRetry, nfail), LAMBDA c :
                 IF c.exc = "none" THEN UpdateIngressConfig(c, env) ELSE c))

OnUpdateStatus(w, env, event) ==
    Bind(GetKafkaEndpoint(w, env, event), LAMBDA e :
    Bind(IF e.exc = "none" THEN CheckContainerReady(Assign(e), env) ELSE e, LAMBDA a :
    Bind(IF a.exc = "none" THEN CheckServiceActive(a, env) ELSE a, LAMBDA b :
        IF b.exc = "none" THEN SetStatus(b, ActiveStatus)
        ELSE IF b.exc = "CharmError" THEN StopAndReport(b, env)
        ELSE b)))

OnDbRelationBroken(w, env, event, nfail) ==
    Bind(GetKafkaEndpoint(w, env, event), LAMBDA e :
        IF e.exc = "CharmError" THEN StopAndReport(e, env)
        ELSE ConfigureService(Assign(e), env, event, DefaultRetry, nfail))

OnKafkaAvailable(w, env, event, nfail) ==
    Bind(GetKafkaEndpoint(w, env, "None"), LAMBDA e :
    Bind(IF e.exc = "none" THEN CheckContainerReady(Assign(e), env) ELSE e, LAMBDA a :
        IF a.exc = "CharmError" THEN StopAndReport(a, env)
        ELSE Bind(ConfigureService(a, env, event, DefaultRetry, nfail), LAMBDA c :
                 IF c.exc = "none" THEN OnUpdateStatus(c, env, "None") ELSE c)))

\* -------------------------------------------------------------- the events
Events == {"PebbleReady", "ConfigChanged", "UpdateStatus", "RelationBroken", "KafkaAvailable"}

\* how many failing replans in a row the environment is given at most
MaxFail == 3

NoHandler ==
    [event |-> "none", redelivered |-> FALSE, stale |-> FALSE, fault |-> "none",
     recovered |-> FALSE,
     overwrote |-> FALSE,
     addLayers |-> 0, replans |-> 0, replanOk |-> FALSE, slept |-> 0, stops |-> 0,
     stopIdle |-> FALSE,
     wrote |-> FALSE, pushed |-> FALSE, deferredNow |-> FALSE, budget |-> -1,
     minRetry |-> DefaultRetry + 1]

\* the framework's dispatch table (framework.observe)
Dispatch(w, env, event, nfail) ==
    CASE event = "PebbleReady" -> OnPebbleReady(w, env, event, nfail)
      [] event = "ConfigChanged" -> OnConfigChanged(w, env, event, nfail)
      [] event = "UpdateStatus" -> OnUpdateStatus(w, env, event)
      [] event = "RelationBroken" -> OnDbRelationBroken(w, env, event, nfail)
      [] event = "KafkaAvailable" -> OnKafkaAvailable(w, env, event, nfail)

\* one event delivered and handled to the end: the handler's effects on the
\* charm and on Pebble, and the record of what it did
Handle(event, env0, dfr, redelivered, nfail) ==
    \E env \in {env0} :
    \E w \in {Dispatch(Begin(status, plan, running, kafka_endpoint, dfr, ingress),
                         env, event, nfail)} :
        /\ status' = w.status
        /\ plan' = w.plan
        /\ running' = w.running
        /\ kafka_endpoint' = w.kep
        /\ deferred' = w.deferred
        /\ ingress' = w.ingress
        /\ last' = [event |-> event, redelivered |-> redelivered,
                    stale |-> event = "RelationBroken" /\ Truthy(env.host) /\ Truthy(env.port),
                    fault |-> w.exc,
                    recovered |-> /\ status.kind = "Blocked" /\ ~running
                                  /\ w.status.kind = "Active" /\ w.running,
                    overwrote |-> kafka_endpoint # None /\ w.kep # kafka_endpoint,
                    addLayers |-> w.addLayers, replans |-> w.replans,
                    replanOk |-> w.replanOk, slept |-> w.slept, stops |-> w.stops,
                    stopIdle |-> w.stopIdle,
                    wrote |-> w.wrote, pushed |-> w.pushed, deferredNow |-> w.deferredNow,
                    budget |-> w.budget, minRetry |-> w.minRetry]

Init ==
    /\ config = [endpoint |-> None, loglevel |-> "info", hostname |-> <<"h">>]
    /\ relHost = None
    /\ relPort = None
    /\ reachable = FALSE
    /\ plan = NoLayer
    /\ running = FALSE
    /\ status = InitialStatus
    /\ kafka_endpoint = None
    /\ deferred = {}
    /\ ingress = None
    /\ last = NoHandler

\* the operator sets options; the platform delivers config-changed
ConfigChangedTo(endpoints, levels) ==
    \E ep \in endpoints, ll \in levels, hn \in HostnameValues,
       nfail \in 0..MaxFail :
        /\ config' = [endpoint |-> ep, loglevel |-> ll, hostname |-> hn]
        /\ Handle("ConfigChanged", Env(config', relHost, relPort, reachable),
                  deferred, FALSE, nfail)
        /\ UNCHANGED <<relHost, relPort, reachable>>

ConfigChanged == ConfigChangedTo(MachineEndpoints, LogLevels)

\* Pebble comes up in the workload container
PebbleReady ==
    \E nfail \in 0..MaxFail :
        /\ reachable' = TRUE
        /\ Handle("PebbleReady", Env(config, relHost, relPort, TRUE),
                  deferred, FALSE, nfail)
        /\ UNCHANGED <<config, relHost, relPort>>

\* the platform's periodic status poll
UpdateStatus ==
    /\ Handle("UpdateStatus", Env(config, relHost, relPort, reachable), deferred, FALSE, 0)
    /\ UNCHANGED <<config, relHost, relPort, reachable>>

\* the related application publishes (or withdraws) host and port; the kafka
\* library emits kafka_available once both are there
RelationChanged ==
    \E h \in HostValues, p \in PortValues, nfail \in 0..MaxFail :
        /\ relHost' = h
        /\ relPort' = p
        /\ IF Truthy(h) /\ Truthy(p)
           THEN Handle("KafkaAvailable", Env(config, h, p, reachable),
                       deferred, FALSE, nfail)
           ELSE /\ last' = NoHandler
                /\ UNCHANGED <<status, plan, running, kafka_endpoint, deferred, ingress>>
        /\ UNCHANGED <<config, reachable>>

\* the relation is removed: the handler runs while the data may still be
\* readable, and the data is gone afterwards
RelationBroken ==
    \E nfail \in 0..MaxFail :
        /\ Handle("RelationBroken", Env(config, relHost, relPort, reachable),
                  deferred, FALSE, nfail)
        /\ relHost' = None
        /\ relPort' = None
        /\ UNCHANGED <<config, reachable>>

\* the platform delivers a deferred event again
Redeliver ==
    \E event \in deferred, nfail \in 0..MaxFail :
        /\ Handle(event, Env(config, relHost, relPort, reachable),
                  deferred \ {event}, TRUE, nfail)
        /\ UNCHANGED <<config, relHost, relPort, reachable>>

\* the Pebble API becomes reachable or unreachable
SetReachable ==
    /\ reachable' = ~reachable
    /\ last' = NoHandler
    /\ UNCHANGED <<config, relHost, relPort, plan, running, status, kafka_endpoint,
                   deferred, ingress>>

Next ==
    \/ ConfigChanged
    \/ PebbleReady
    \/ UpdateStatus
    \/ RelationChanged
    \/ RelationBroken
    \/ Redeliver
    \/ SetReachable

Spec == Init /\ [][Next]_vars


\* ---------------------------------------------- resolution as a function
\* A unit deployed with any option value and any relation data, and the
\* first event it handles.
ResolveInit ==
    /\ config \in [endpoint : StaticValues, loglevel : LogLevels, hostname : HostnameValues]
    /\ relHost \in HostValues
    /\ relPort \in PortValues
    /\ reachable \in BOOLEAN
    /\ plan = NoLayer
    /\ running = FALSE
    /\ status = InitialStatus
    /\ kafka_endpoint = None
    /\ deferred = {}
    /\ ingress = None
    /\ last = NoHandler

Fresh == last.event = "none" /\ plan = NoLayer /\ status = InitialStatus

FirstConfigChanged == Fresh /\ ConfigChangedTo(StaticValues, LogLevels)
FirstPebbleReady == Fresh /\ PebbleReady
FirstUpdateStatus == Fresh /\ UpdateStatus
FirstRelationChanged == Fresh /\ RelationChanged
FirstRelationBroken == Fresh /\ RelationBroken

ResolveNext ==
    \/ FirstConfigChanged
    \/ FirstPebbleReady
    \/ FirstUpdateStatus
    \/ FirstRelationChanged
    \/ FirstRelationBroken

ResolveSpec == ResolveInit /\ [][ResolveNext]_vars


\* ============================================================ the claims
\* What the claims speak of, stated over the options, the relation data and
\* the reachability as they are when a handler has just returned.
Colons(s) == Cardinality({i \in 1..Len(s) : s[i] = ":"})

\* "<host>:<port>": exactly one colon, host and port not empty
WellFormed(s) == s # None /\ Colons(s) = 1 /\ s[1] # ":" /\ s[Len(s)] # ":"

StaticAbsent == config.endpoint = None \/ config.endpoint = <<>>

RelEndpointPresent == relHost # None /\ relPort # None

\* str.lower on the log-level option
Lower(x) == IF x = "Info" THEN "info" ELSE x

LogLevelOk == Lower(config.loglevel) \in {"trace", "debug", "info", "warn", "error", "fatal"}

OneSource ==
    \/ WellFormed(config.endpoint) /\ ~RelEndpointPresent
    \/ StaticAbsent /\ RelEndpointPresent

Effective == IF RelEndpointPresent THEN relHost \o <<":">> \o relPort ELSE config.endpoint

Returned == last.event # "none"

ApplyEvents == {"ConfigChanged", "KafkaAvailable", "RelationBroken"}

\* C1: after ConfigChanged, DependencyAvailable (kafka_available),
\* RelationBroken or SupervisorReady (pebble-ready), if exactly one endpoint
\* source is present and valid, Pebble is reachable and the submission
\* succeeded, the status is Active with no message and the command of the
\* layer Pebble holds is "bin/kafka_exporter --kafka.server=" followed by the
\* effective endpoint.
C1_ActiveWithCommand ==
    (/\ last.event \in ApplyEvents \cup {"PebbleReady"}
     /\ OneSource
     /\ reachable
     /\ last.replanOk)
    => /\ status = [kind |-> "Active", msg |-> <<>>]
       /\ plan.command = <<"bin/kafka_exporter --kafka.server=">> \o Effective

C1_Witness ==
    /\ last.event = "KafkaAvailable"
    /\ OneSource
    /\ reachable
    /\ last.replanOk
    /\ last.slept > 0
    /\ status.kind = "Active"

\* C2: with a well-formed static endpoint and a relation endpoint both
\* present (and a valid log-level), every handled event other than the
\* removal of the relation ends with the status Blocked("Kafka cannot added
\* via relation and via config at the same time"), in whatever order the two
\* were set.
C2_ConflictBlocks ==
    (/\ Returned
     /\ last.event # "RelationBroken"
     /\ WellFormed(config.endpoint)
     /\ RelEndpointPresent
     /\ LogLevelOk)
    => status = [kind |-> "Blocked",
                 msg |-> <<"Kafka cannot added via relation and via config at the same time">>]

\* C3: with neither a static nor a relation endpoint and a valid log-level,
\* every handler ends with the status Blocked("Not kafka-endpoint added.
\* ...") and submits no layer.
C3_NoEndpointBlocks ==
    (/\ Returned
     /\ StaticAbsent
     /\ ~RelEndpointPresent
     /\ LogLevelOk)
    => /\ status = [kind |-> "Blocked",
                    msg |-> <<"Not kafka-endpoint added. Kafka endpoint needs to be added via relation or via config">>]
       /\ last.addLayers = 0

\* C4: a static kafka-endpoint with no colon or with two or more colons,
\* the empty string included, makes every handler end with the status
\* Blocked("Wrong kafka-endpoint format: value must be in the format
\* <host>:<port>"), with or without a relation endpoint (the log-level
\* being valid).
C4_ColonCountBlocks ==
    (/\ Returned
     /\ config.endpoint # None
     /\ Colons(config.endpoint) # 1
     /\ LogLevelOk)
    => status = [kind |-> "Blocked",
                 msg |-> <<"Wrong kafka-endpoint format: value must be in the format <host>:<port>">>]

\* C5: a static kafka-endpoint with exactly one colon and an empty host or
\* an empty port is rejected (the log-level being valid and the handler
\* ending without a fault): the status is Blocked with the format message,
\* the event is not deferred and no layer is submitted.
EmptyPart(s) == s # None /\ Colons(s) = 1 /\ (s[1] = ":" \/ s[Len(s)] = ":")

C5_EmptyPartRejected ==
    (/\ Returned
     /\ EmptyPart(config.endpoint)
     /\ LogLevelOk
     /\ last.fault = "none")
    => /\ status = [kind |-> "Blocked",
                    msg |-> <<"Wrong kafka-endpoint format: value must be in the format <host>:<port>">>]
       /\ last.addLayers = 0
       /\ ~last.deferredNow

\* C6: when Pebble is unreachable and the endpoint resolves, the handlers
\* of ConfigChanged, DependencyAvailable and RelationBroken submit no layer,
\* request no replan and end with a Waiting status.
C6_UnreachableWaits ==
    (/\ last.event \in ApplyEvents
     /\ ~reachable
     /\ OneSource
     /\ LogLevelOk)
    => /\ last.addLayers = 0
       /\ last.replans = 0
       /\ status.kind = "Waiting"

\* C7: an event that reaches the apply step while Pebble is unreachable is
\* deferred and nothing is submitted or slept on in that handler; and while
\* an event is deferred behind the status Waiting("waiting for Pebble API"),
\* eventually the status is Active, unless Pebble is unreachable or the
\* configuration no longer resolves.
DeferredWaiting ==
    /\ deferred # {}
    /\ status = [kind |-> "Waiting", msg |-> <<"waiting for Pebble API">>]

StillResolves ==
    /\ LogLevelOk
    /\ OneSource
    /\ "RelationBroken" \in deferred => WellFormed(config.endpoint)

Exhausted == last.replans >= 3 /\ ~last.replanOk

DeferredNotRetried ==
    last.deferredNow
    => /\ last.event \in deferred
       /\ last.addLayers = 0
       /\ last.replans = 0
       /\ last.slept = 0
       /\ status = [kind |-> "Waiting", msg |-> <<"waiting for Pebble API">>]

C8_ExhaustionBlocks ==
    (/\ last.event \in ApplyEvents
     /\ last.replans >= 3
     /\ ~last.replanOk)
    => /\ last.wrote
       /\ status.kind = "Blocked"

\* C9: one invocation of the apply step starts from a budget of 3, makes at
\* most 3 submission attempts (add-layer plus replan), sleeps 5 units after
\* each failed attempt and so at most 3 times, and its counter never goes
\* below 0; this holds for every event, whatever earlier events did.
C9_BoundedRetry ==
    (last.budget # -1)
    => /\ last.budget = 3
       /\ last.addLayers <= 3
       /\ last.replans = last.addLayers
       /\ last.slept = 5 * (last.replans - (IF last.replanOk THEN 1 ELSE 0))
       /\ last.slept <= 15
       /\ last.minRetry >= 0

C9_Witness ==
    /\ last.budget = 3
    /\ last.addLayers = 3
    /\ last.slept = 15
    /\ last.minRetry = 0
    /\ last.redelivered

\* C10: no handler of the five events ends with an unhandled fault.
C10_NoUnhandledFault == Returned => last.fault = "none"

\* C11: a RelationBroken event handled by a unit that is Active through the
\* relation (no static endpoint, relation host and port still readable) ends
\* with the status Blocked("Not kafka-endpoint added. ..."), a stop command
\* was sent and no layer was submitted.
C11_BrokenRelationBlocks ==
    [][(/\ last'.event = "RelationBroken"
        /\ StaticAbsent
        /\ RelEndpointPresent
        /\ status.kind = "Active")
       => /\ status' = [kind |-> "Blocked",
                        msg |-> <<"Not kafka-endpoint added. Kafka endpoint needs to be added via relation or via config">>]
          /\ last'.stops >= 1
          /\ last'.addLayers = 0]_vars

\* C12: from the conflicting state (well-formed static endpoint and relation
\* endpoint both present, status Blocked with the conflict message), a
\* RelationBroken event with Pebble reachable ends with the status Active
\* and the command of the submitted layer names the static endpoint.
ConflictState ==
    /\ WellFormed(config.endpoint)
    /\ RelEndpointPresent
    /\ status = [kind |-> "Blocked",
                 msg |-> <<"Kafka cannot added via relation and via config at the same time">>]

C13_IngressAlwaysPushed ==
    last.event = "ConfigChanged"
    => /\ last.pushed
       /\ ingress = config.hostname

\* C14: with a log-level that is, case-insensitively, none of trace, debug,
\* info, warn, error, fatal, every handler ends with a Blocked status and
\* submits no layer, whatever the endpoints are; and with a valid log-level
\* and no endpoint no handler sets the status Active.
C14_InvalidLogLevelBlocks ==
    /\ (Returned /\ ~LogLevelOk)
       => /\ status.kind = "Blocked"
          /\ last.addLayers = 0
          /\ last.replans = 0
    /\ (Returned /\ LogLevelOk /\ StaticAbsent /\ ~RelEndpointPresent)
       => /\ ~(last.wrote /\ status.kind = "Active")
          /\ last.addLayers = 0

C14_Witness ==
    /\ Returned
    /\ config.loglevel = "warning"
    /\ OneSource
    /\ reachable
    /\ last.stops = 1
    /\ status = [kind |-> "Blocked", msg |-> <<"invalid value for log-level option">>]

\* C15: a StatusPoll (update-status) handler ends with the status Active
\* exactly when the endpoint resolves, Pebble is reachable and the service
\* is configured and running; otherwise it ends with a Blocked or Waiting
\* status that it wrote; and it never submits a layer or requests a replan.
C15_StatusPollActiveIff ==
    last.event = "UpdateStatus"
    => /\ status.kind = "Active"
          <=> (LogLevelOk /\ OneSource /\ reachable /\ plan # NoLayer /\ running)
       /\ status.kind # "Active" => (last.wrote /\ status.kind \in {"Blocked", "Waiting"})
       /\ last.addLayers = 0
       /\ last.replans = 0

\* C16: no handler sends a stop command for a service that is not running.
C16_StopOnlyWhenRunning == Returned => ~last.stopIdle

\* C17: when a resolution failure is reported while Pebble is reachable and
\* the service is in no layer, no stop command is sent, the plan and the
\* service are left as they were, and the handler ends with the Blocked
\* status of the resolution failure.
ResolutionFailures ==
    {<<"invalid value for log-level option">>,
     <<"Wrong kafka-endpoint format: value must be in the format <host>:<port>">>,
     <<"Kafka cannot added via relation and via config at the same time">>,
     <<"Not kafka-endpoint added. Kafka endpoint needs to be added via relation or via config">>}

\* the endpoint resolves for the handler that just returned: the removal of
\* the relation leaves only the static endpoint
ResolvesNow ==
    /\ LogLevelOk
    /\ IF last.event = "RelationBroken" THEN WellFormed(config.endpoint)
       ELSE OneSource

C17_NeverConfiguredNoStop ==
    (/\ Returned
     /\ reachable
     /\ plan = NoLayer
     /\ ~ResolvesNow)
    => /\ last.stops = 0
       /\ ~running
       /\ last.fault = "none"
       /\ status.kind = "Blocked"
       /\ status.msg \in ResolutionFailures

C17_Witness ==
    /\ last.event \in {"ConfigChanged", "UpdateStatus", "RelationBroken"}
    /\ reachable
    /\ plan = NoLayer
    /\ StaticAbsent
    /\ ~RelEndpointPresent
    /\ last.stops = 0
    /\ last.wrote
    /\ status.kind = "Blocked"

\* C18: the status a handler ends with is the status the same event gives a
\* newly deployed unit with the same options, the same relation data and
\* the same reachability: it does not depend on what happened before.
OnFreshUnit(event) ==
    Dispatch(Begin(InitialStatus, NoLayer, FALSE, None, {}, None),
             Env(config, relHost, relPort, reachable), event, 0)

C18_StatusIsFunctionOfSource == Returned => status = OnFreshUnit(last.event).status

\* C19: every layer submitted to Pebble carries the endpoint resolved by the
\* handler that submitted it: never the initial None, never an endpoint an
\* earlier event resolved.
ResolvedNow ==
    IF last.event = "RelationBroken" \/ ~RelEndpointPresent THEN config.endpoint
    ELSE relHost \o <<":">> \o relPort

C19_LayerFromResolvedEndpoint ==
    (Returned /\ last.addLayers > 0)
    => /\ plan.command = <<"bin/kafka_exporter --kafka.server=">> \o ResolvedNow
       /\ plan.command # <<"bin/kafka_exporter --kafka.server=", "N", "o", "n", "e">>
       /\ kafka_endpoint = ResolvedNow

C19_Witness ==
    /\ last.addLayers > 0
    /\ last.overwrote
    /\ last.redelivered
    /\ plan.command = <<"bin/kafka_exporter --kafka.server=">> \o ResolvedNow

\* C20: a handler whose endpoint resolves with Pebble reachable submits the
\* layer exactly once, also when a replan fails and is retried.
C20_LayerSubmittedOnce ==
    (/\ last.event \in ApplyEvents \cup {"PebbleReady"}
     /\ ResolvesNow
     /\ reachable
     /\ last.fault = "none")
    => last.addLayers = 1



\* C21: when several resolution failures apply, the reported one is the
\* first of: invalid log-level, ill-formed static endpoint, conflicting
\* sources, no endpoint.  So an invalid log-level is reported whatever the
\* endpoints are, and an ill-formed static endpoint (not exactly one colon,
\* or an empty host or port) is reported as a format error also when the
\* relation endpoint is present.  The reported message is the one of the
\* error or the one validation writes just before raising it.
LogLevelMessages ==
    {<<"invalid value for log-level option">>,
     <<"invalid log level: ", "WARNING">>}

FormatMessages ==
    {<<"Wrong kafka-endpoint format: value must be in the format <host>:<port>">>,
     <<"Wrong kafka-endpoint format">>}

C21_FailureOrder ==
    /\ (Returned /\ ~LogLevelOk /\ ~OneSource)
       => (status.kind = "Blocked" /\ status.msg \in LogLevelMessages)
    /\ (/\ Returned
        /\ last.event # "RelationBroken"
        /\ LogLevelOk
        /\ config.endpoint # None
        /\ ~WellFormed(config.endpoint)
        /\ RelEndpointPresent)
       => (status.kind = "Blocked" /\ status.msg \in FormatMessages)


\* C22: after every handler, a unit whose status is Active has the
\* kafka-exporter service in Pebble's plan, with a command that names the
\* endpoint the current options and relation data resolve to.
C22_ActiveMatchesPlan ==
    (Returned /\ status.kind = "Active")
    => /\ plan # NoLayer
       /\ LogLevelOk
       /\ OneSource
       /\ plan.command = <<"bin/kafka_exporter --kafka.server=">> \o Effective

\* C23: from a state where a resolution failure left the unit Blocked and
\* the service stopped, a ConfigChanged event that finds exactly one valid
\* source and Pebble reachable, and whose replan succeeds within the retry
\* budget, ends with the status Active and the service running.
BlockedAndStopped ==
    /\ status.kind = "Blocked"
    /\ status.msg \in ResolutionFailures
    /\ plan # NoLayer
    /\ ~running

C23_RecoveryAfterFailure ==
    [][(/\ last'.event = "ConfigChanged"
        /\ BlockedAndStopped
        /\ reachable
        /\ LogLevelOk'
        /\ OneSource'
        /\ ~Exhausted')
       => /\ status' = [kind |-> "Active", msg |-> <<>>]
          /\ running'
          /\ last'.replanOk]_vars

C23_Witness ==
    /\ last.event = "ConfigChanged"
    /\ last.recovered
    /\ last.stops = 0
    /\ last.slept = 0
    /\ OneSource
    /\ status.kind = "Active"
    /\ running

\* ------------------------------------------------------------ redelivery
\* The events that can be deferred, the status poll, the reachability
\* changes and the redelivery, with the static endpoint unset or well formed,
\* under the platform's guarantees that a deferred event is delivered again
\* and that the status poll keeps coming.
LiveEndpoints == {None, <<"k", ":", "k">>}

LiveConfigChanged == ConfigChangedTo(LiveEndpoints, LogLevels)

LiveNext ==
    \/ LiveConfigChanged
    \/ UpdateStatus
    \/ RelationBroken
    \/ Redeliver
    \/ SetReachable

LiveSpec == Init /\ [][LiveNext]_vars /\ WF_vars(Redeliver) /\ WF_vars(UpdateStatus)

====
